---- MODULE Spec2Model ----
(***************************************************************************)
(* Model of the TeckAI X bot: the poll handler (api/checkMentions.js), its  *)
(* retry wrapper, the in-memory Dedup Store (utils/stateManager.js) and the *)
(* legacy webhook handler (api/teckaibot.js).                               *)
(*                                                                         *)
(* Time is the value of Date.now() in milliseconds.  A handler suspends at  *)
(* each await of an external call; one action is the code between two such  *)
(* awaits.  The outcome and the duration of every external call are inputs. *)
(***************************************************************************)
EXTENDS Integers, Sequences, FiniteSets, TLC

VARIABLES
  now,               \* Date.now()
  env,               \* names of the environment variables that are set
  processedTweets,   \* stateManager.js: the Map id -> record
  inv,               \* poll handler invocations: locals and position
  wh,                \* webhook handler invocation: locals and position
  used,              \* how much of each bound of the model is used up
  replies,           \* platform side: replies created per mention id
  calls,             \* history: calls made by the poll handler, per id
  pub,               \* history: successful publishes of the poll handler
  whCalls,           \* history: calls made by the webhook handler, per id
  retryIn,           \* RetrySpec: arguments of one retryApiCall
  retryOut,          \* RetrySpec: its completion, or NotRun
  storeLog,          \* StoreSpec: the last call of stateManager.js and its result
  textIn,            \* TextSpec, WalletSpec: the input of a text function
  textOut,           \* TextSpec, WalletSpec: its result, or NotRun
  tv                 \* TimeoutSpec: the handler of the timeout variant

\* The variables of the specifications of single functions.
aux == <<storeLog, textIn, textOut, tv>>

vars == <<now, env, processedTweets, inv, wh, used, replies,
          calls, pub, whCalls, retryIn, retryOut, aux>>

----------------------------------------------------------------------------
(* Bounds of the model *)

MaxBatches == 2       \* poll requests
MaxMentions == 2      \* mentions listed by all searches together
MaxDeliveries == 1    \* webhook deliveries
MaxEvents == 2        \* tweet_create_events of all deliveries together
MaxFaults == 2        \* failed attempts of external calls
MaxSlow == 1          \* external calls slower than the batch budget
MaxRetriesBound == 4  \* largest maxRetries given to retryApiCall in RetrySpec

(* Program constants *)

MAX_AGE == 24 * 60 * 60 * 1000
maxExecutionTime == 25000
DefaultMaxRetries == 3

(* Input sets *)

Ids == {"T1", "T2"}
WalletIds == {"T2"}            \* mentions whose text holds a wallet address
Invocations == {"inv1", "inv2"}
SerialSlot == "inv1"           \* the host runs one request at a time
CallDurations == {1000, 26000} \* time one attempt of an external call takes
IdleDurations == {0, MAX_AGE}  \* time between a response and the next request
Methods == {"GET", "PUT"}
\* utils/twitter.js lines 215-218: what postTwitterReply signs its request with
PublishEnv == {"TWITTER_ACCESS_TOKEN", "TWITTER_ACCESS_SECRET",
               "TWITTER_APP_KEY", "TWITTER_APP_SECRET"}
AllEnv == {"BOT_USERNAME", "TWITTER_BEARER_TOKEN", "GROQ_API_KEY"} \cup PublishEnv
\* Everything is set, or one variable is missing.
Envs ==
  {AllEnv} \cup
  {AllEnv \ {v} : v \in {"BOT_USERNAME", "TWITTER_BEARER_TOKEN", "GROQ_API_KEY",
                         "TWITTER_ACCESS_TOKEN"}}
Values == {"v1", "v2"}

Batches == UNION {[1..n -> Ids] : n \in 0..MaxMentions}

----------------------------------------------------------------------------
(* Outcomes of one attempt of an external call.  res: the call returned    *)
(* ("ok"), raised a rate-limit signal ("rate") or raised anything else      *)
(* ("other"); created: the request created a reply on the platform; val:   *)
(* the value returned or the error raised.  "rate" is a failure that the    *)
(* upstream answered with HTTP 429 or whose error carries code 429; msg429   *)
(* says that the message of another error contains the text "429".          *)

Outcome(res, created, val) ==
  [res |-> res, created |-> created, val |-> val, msg429 |-> FALSE]

\* A failure that is no HTTP 429 and has no code 429, with "429" in its message.
TextOutcome(val) ==
  [res |-> "other", created |-> FALSE, val |-> val, msg429 |-> TRUE]

ReadOutcomes == {Outcome(r, FALSE, "v1") : r \in {"ok", "rate", "other"}}

\* A publish that raises may still have created the reply: the request was
\* delivered and the response lost, or reported as an error.
PublishOutcomes ==
  {Outcome("ok", TRUE, "v1"), Outcome("rate", FALSE, "v1")} \cup
  {Outcome("other", c, "v1") : c \in BOOLEAN}

\* The upstream rejects a request made without its credential: HTTP 401.
Unauthorized == Outcome("other", FALSE, "v1")

\* What the upstream can answer to a request that needs the variables `needed`.
Authorized(outcomes, needed) == needed \subseteq env \/ outcomes = <<Unauthorized>>

\* Outcome sequences as long as a call with maxRetries = n can consume.
Scripts(O, n) ==
  {s \in UNION {[1..k -> O] : k \in 1..n} :
     /\ \A i \in 1..(Len(s) - 1) : s[i].res = "rate"
     /\ Len(s) = n \/ s[Len(s)].res # "rate"}

Faults(script) == Cardinality({i \in 1..Len(script) : script[i].res # "ok"})

\* The failures to count against the bound: a rejection for a missing
\* credential is no choice among outcomes, and is not counted.
Charged(script, needed) == IF needed \subseteq env THEN Faults(script) ELSE 0

\* The part of the bounds that a call with these inputs uses up.
Spend(u, faults, d) ==
  [u EXCEPT !.faults = @ + faults, !.slow = @ + (IF d > maxExecutionTime THEN 1 ELSE 0)]

Affordable(faults, d) ==
  /\ used.faults + faults <= MaxFaults
  /\ d > maxExecutionTime => used.slow < MaxSlow

----------------------------------------------------------------------------
(* utils/stateManager.js *)

\* Mutant: a record is already expired at the age of exactly 24 hours.
expiredAtBoundary(age) == age >= MAX_AGE

\* Line 84: now - data.timestamp > MAX_AGE
expired(age) == age > MAX_AGE

\* Mutant: the age test reversed, so that the young records are evicted.
cleanupOldTweetsReversed(store, t) ==
  [id \in {i \in DOMAIN store : ~(t - store[i].timestamp <= MAX_AGE)} |-> store[id]]

cleanupOldTweets(store, t) ==
  [id \in {i \in DOMAIN store : ~expired(t - store[i].timestamp)} |-> store[id]]

\* Lines 12-30: the records as a list, after the sweep.
getProcessedTweets(store, t) == DOMAIN cleanupOldTweets(store, t)

\* Mutant: the membership test always takes the fail-open answer.
isTweetProcessedFailOpen(store, id, t) == FALSE

isTweetProcessed(store, id, t) == id \in DOMAIN cleanupOldTweets(store, t)

\* Mutant: the record is not stored.
addProcessedTweetLost(store, id, t) == store

addProcessedTweet(store, id, t) ==
  [i \in DOMAIN store \cup {id} |-> IF i = id THEN [timestamp |-> t] ELSE store[i]]

\* Mutant: the counts are taken without the sweep.
getProcessingStatsUnswept(store, t) ==
  LET s == store
  IN [totalProcessed |-> Cardinality(DOMAIN s),
      lastHour |-> Cardinality({i \in DOMAIN s : t - s[i].timestamp < 60 * 60 * 1000}),
      last24Hours |-> Cardinality({i \in DOMAIN s : t - s[i].timestamp < 24 * 60 * 60 * 1000})]

getProcessingStats(store, t) ==
  LET s == cleanupOldTweets(store, t)
  IN [totalProcessed |-> Cardinality(DOMAIN s),
      lastHour |-> Cardinality({i \in DOMAIN s : t - s[i].timestamp < 60 * 60 * 1000}),
      last24Hours |-> Cardinality({i \in DOMAIN s : t - s[i].timestamp < 24 * 60 * 60 * 1000})]

\* Where a statement of a store function throws: nowhere, inside the loop of
\* the sweep, or in the function's own statements.
FaultSites == {"none", "sweep", "body"}

\* Lines 77-96 when the loop throws after it deleted the records of gone: the
\* catch of lines 93-95 logs, and the sweep returns normally.
cleanupOldTweetsUnder(store, t, fault, gone) ==
  IF fault = "sweep"
  THEN [id \in DOMAIN store \ gone |-> store[id]]
  ELSE cleanupOldTweets(store, t)

\* Mutant: the catch of the membership test answers that the tweet was seen.
assumeProcessed == TRUE

\* Lines 67-70: the catch of the membership test.
assumeNotProcessed == FALSE

\* Lines 60-71
isTweetProcessedUnder(store, id, t, fault, gone) ==
  IF fault = "body"
  THEN assumeNotProcessed
  ELSE id \in DOMAIN cleanupOldTweetsUnder(store, t, fault, gone)

\* Lines 125-132: the catch of the statistics.
zeroStats == [totalProcessed |-> 0, lastHour |-> 0, last24Hours |-> 0]

\* Lines 102-133
getProcessingStatsUnder(store, t, fault, gone) ==
  LET s == cleanupOldTweetsUnder(store, t, fault, gone)
  IN IF fault = "body"
     THEN zeroStats
     ELSE [totalProcessed |-> Cardinality(DOMAIN s),
           lastHour |-> Cardinality({i \in DOMAIN s : t - s[i].timestamp < 60 * 60 * 1000}),
           last24Hours |->
             Cardinality({i \in DOMAIN s : t - s[i].timestamp < 24 * 60 * 60 * 1000})]

\* Lines 39-53: text.substring of line 44 throws on a tweet without text,
\* before the record is set; the catch of lines 50-52 logs.
addProcessedTweetUnder(store, id, t, fault) ==
  IF fault = "body" THEN store ELSE addProcessedTweet(store, id, t)

\* Lines 12-30: the catch of lines 26-29 gives the empty list.
getProcessedTweetsUnder(store, t, fault, gone) ==
  IF fault = "body" THEN {} ELSE DOMAIN cleanupOldTweetsUnder(store, t, fault, gone)

----------------------------------------------------------------------------
(* The reply text.  A string is the sequence of its UTF-16 code units, which *)
(* is what length, includes and substring of the language count.            *)

ReplyLimit == 280
MaxContentLength == 300    \* longest text the generation service returns

IsSpace(c) == c = " "

\* String.prototype.trim
trim(s) ==
  LET keep == {i \in 1..Len(s) : ~IsSpace(s[i])}
  IN IF keep = {} THEN << >>
     ELSE SubSeq(s, CHOOSE i \in keep : \A j \in keep : i <= j,
                    CHOOSE i \in keep : \A j \in keep : i >= j)

\* String.prototype.includes
includes(s, sub) ==
  \E i \in 0..(Len(s) - Len(sub)) : SubSeq(s, i + 1, i + Len(sub)) = sub

\* String.prototype.substring(0, n)
substring(s, n) == IF Len(s) <= n THEN s ELSE SubSeq(s, 1, n)

\* "Sorry, I couldn't generate a response right now! " and a robot emoji
Apology ==
  <<
     "S", "o", "r", "r", "y", ",", " ", "I", " ", "c",
     "o", "u", "l", "d", "n", "'", "t", " ", "g", "e",
     "n", "e", "r", "a", "t", "e", " ", "a", " ", "r",
     "e", "s", "p", "o", "n", "s", "e", " ", "r", "i",
     "g", "h", "t", " ", "n", "o", "w", "!", " ", "U+D83E",
     "U+DD16"
  >>

\* What response.json() gives: kind "content" has a string at
\* choices[0].message.content, kind "nocontent" has none there, kind
\* "nochoices" has no choices array.
Result(kind, content) == [kind |-> kind, content |-> content]

Handle(username) == <<"@">> \o username

Returned(reply) == [done |-> "return", reply |-> reply]
Thrown == [done |-> "throw", reply |-> << >>]

\* utils/twitter.js line 198: content?.trim() || apology
replyOrFallback(result) ==
  LET content == IF result.kind = "content" THEN trim(result.content) ELSE << >>
  IN IF content = << >> THEN Apology ELSE content

\* utils/twitter.js lines 201-203
ensureMention(username, reply) ==
  IF ~includes(reply, Handle(username))
  THEN Handle(username) \o <<" ">> \o reply
  ELSE reply

\* Mutant: the reply is returned without the final truncation.
generateGroqResponseUncut(username, result) ==
  IF result.kind = "nochoices" THEN Thrown
  ELSE Returned(ensureMention(username, replyOrFallback(result)))

\* utils/twitter.js lines 196-205, after a successful fetch
generateGroqResponse(username, result) ==
  IF result.kind = "nochoices" THEN Thrown
  ELSE Returned(substring(ensureMention(username, replyOrFallback(result)), ReplyLimit))

\* api/teckaibot.js lines 253-254, after a successful fetch
webhookGenerateGroqResponse(username, result) ==
  IF result.kind = "nochoices" THEN Thrown
  ELSE Returned(replyOrFallback(result))

----------------------------------------------------------------------------
(* api/checkMentions.js: retryApiCall *)

NoError == [kind |-> "none", api |-> "none", val |-> "none"]

\* Mutant: every failure is taken for a rate-limit signal.
isRateLimitAny(o) == o.res # "ok"

\* Line 156: error.code === 429 || error.message.includes('429')
isRateLimit(o) == o.res = "rate" \/ o.msg429

\* Mutant: the test of the last attempt is off by one.
lastAttemptLate(attempt, maxRetries) == attempt > maxRetries

\* Line 157
lastAttempt(attempt, maxRetries) == attempt = maxRetries

\* Mutant: linear instead of exponential backoff.
retryDelayLinear(attempt) == attempt * 1000

retryDelay(attempt) == (2 ^ attempt) * 1000

RetryStart(t) ==
  [done |-> "running", val |-> "none", error |-> NoError, calls |-> 0,
   created |-> 0, starts |-> <<>>, fails |-> <<>>, sleeps |-> <<>>, t |-> t]

\* The for loop from `attempt` on; every attempt of the call takes d ms.
RECURSIVE retryLoop(_, _, _, _, _, _)
retryLoop(script, apiName, maxRetries, d, attempt, acc) ==
  IF attempt > maxRetries
  THEN [acc EXCEPT !.done = "undefined"]
  ELSE
    LET o == script[attempt]
        tEnd == acc.t + d
        a1 == [acc EXCEPT !.calls = @ + 1,
                          !.starts = Append(@, acc.t),
                          !.created = @ + (IF o.created THEN 1 ELSE 0),
                          !.t = tEnd]
    IN IF o.res = "ok"
       THEN [a1 EXCEPT !.done = "ok", !.val = o.val]
       ELSE IF isRateLimit(o)
       THEN IF lastAttempt(attempt, maxRetries)
            THEN [a1 EXCEPT !.done = "throw",
                            !.fails = Append(@, tEnd),
                            !.error = [kind |-> "exhausted", api |-> apiName, val |-> "none"]]
            ELSE retryLoop(script, apiName, maxRetries, d, attempt + 1,
                           [a1 EXCEPT !.fails = Append(@, tEnd),
                                      !.sleeps = Append(@, retryDelay(attempt)),
                                      !.t = tEnd + retryDelay(attempt)])
       ELSE [a1 EXCEPT !.done = "throw",
                       !.fails = Append(@, tEnd),
                       !.error = [kind |-> "original", api |-> apiName, val |-> o.val]]

retryApiCall(script, apiName, maxRetries, d, t) ==
  retryLoop(script, apiName, maxRetries, d, 1, RetryStart(t))

----------------------------------------------------------------------------
(* api/checkMentions.js: handler *)

NoStats == [totalProcessed |-> 0 - 1, lastHour |-> 0 - 1, last24Hours |-> 0 - 1]
NoResponse == [code |-> 0, status |-> "none", stats |-> NoStats]

IdleInv ==
  [pc |-> "idle", startTime |-> 0, mentions |-> <<>>, idx |-> 1,
   processedCount |-> 0, errors |-> <<>>,
   walletPortfolio |-> "null", walletStrategies |-> "null",
   response |-> NoResponse, via |-> "poll", sent |-> 0, attempts |-> 0]

TimeoutNote == [kind |-> "timeout", id |-> "none"]

\* Mutant: the stop is recorded as a failure of the mention it came to.
stopBatchBlaming(s) ==
  [s EXCEPT !.errors = Append(@, [kind |-> "mention", id |-> s.mentions[s.idx]])]

\* Lines 50-52: the note of the stop, and the break.
stopBatch(s) == [s EXCEPT !.errors = Append(@, TimeoutNote)]

\* Mutant: the operands of the subtraction swapped.
budgetExceededSwapped(t, startTime) == startTime - t > maxExecutionTime

budgetExceeded(t, startTime) == t - startTime > maxExecutionTime

batchStatus(errors, processedCount) ==
  IF Len(errors) > 0 /\ processedCount = 0 THEN "partial_success" ELSE "success"

\* Mutant: the handler ends without an answer.
summarizeUnanswered(s, store, t) == [s EXCEPT !.pc = "done"]

\* Lines 111-120: the batch result.
summarize(s, store, t) ==
  [s EXCEPT !.pc = "done", !.sent = @ + 1,
            !.response = [code |-> 200,
                          status |-> batchStatus(s.errors, s.processedCount),
                          stats |-> getProcessingStats(store, t)]]

\* Lines 122-139: the catch around the whole handler.
outerCatch(s, err) ==
  [s EXCEPT !.pc = "done", !.sent = @ + 1,
            !.response = [code |-> IF err.kind = "exhausted" THEN 429 ELSE 500,
                          status |-> "error", stats |-> NoStats]]

\* Mutant: the error of one mention is thrown on to the outer catch.
catchMentionRethrow(s, id, err) == outerCatch(s, err)

\* Lines 104-107: the catch of one loop iteration.
catchMention(s, id, err) ==
  [s EXCEPT !.errors = Append(@, [kind |-> "mention", id |-> id]),
            !.idx = @ + 1,
            !.pc = "loop"]

ConfigError == [kind |-> "config", api |-> "none", val |-> "none"]

Bump(f, id, n) == [f EXCEPT ![id] = @ + n]

\* History: the largest number of attempts that one retryApiCall of the
\* invocation has made.
Tried(s, n) == [s EXCEPT !.attempts = IF n > @ THEN n ELSE @]

\* The host runs one request at a time.
HostIdle ==
  /\ \A q \in Invocations : inv[q].pc \in {"idle", "done"}
  /\ wh.pc \in {"idle", "done"}

\* Lines 7-30: a request arrives, idle ms after the last response; up to the
\* await of the search.
handlerBegin(p, method, via) ==
  IF method # "GET"
  THEN /\ inv' = [inv EXCEPT ![p] = [IdleInv EXCEPT !.pc = "done", !.via = via,
                    !.sent = 1,
                    !.response = [code |-> 405, status |-> "none", stats |-> NoStats]]]
       /\ UNCHANGED processedTweets
  ELSE IF "BOT_USERNAME" \notin env
  THEN /\ inv' = [inv EXCEPT ![p] =
                    outerCatch([IdleInv EXCEPT !.startTime = now', !.via = via],
                               ConfigError)]
       /\ UNCHANGED processedTweets
  ELSE /\ inv' = [inv EXCEPT ![p] =
                    [IdleInv EXCEPT !.startTime = now', !.via = via, !.pc = "search"]]
       /\ processedTweets' = cleanupOldTweets(processedTweets, now')

HandlerStart(p, method, idle) ==
  /\ HostIdle
  /\ used.batches < MaxBatches
  /\ used' = [used EXCEPT !.batches = @ + 1]
  /\ now' = now + idle
  /\ handlerBegin(p, method, "poll")
  /\ UNCHANGED <<env, wh, replies, calls, pub, whCalls, retryIn, retryOut, aux>>

\* Lines 7-30 in a process that takes a request while another one is
\* suspended at an await: nothing in the handler waits for the other one.
OverlappingStart(p) ==
  /\ inv[p].pc \in {"idle", "done"}
  /\ wh.pc \in {"idle", "done"}
  /\ used.batches < MaxBatches
  /\ used' = [used EXCEPT !.batches = @ + 1]
  /\ now' = now
  /\ handlerBegin(p, "GET", "poll")
  /\ UNCHANGED <<env, wh, replies, calls, pub, whCalls, retryIn, retryOut, aux>>

\* teckaibot.js line 59
requiredEnvVars == {"TWITTER_BEARER_TOKEN", "BOT_USERNAME", "GROQ_API_KEY"}

\* teckaibot.js lines 54-90: a PUT request to the webhook endpoint, idle ms
\* after the last response.  It hands its own request, whose method is PUT,
\* to the poll handler.
ManualTrigger(p, idle) ==
  /\ HostIdle
  /\ used.batches < MaxBatches
  /\ used' = [used EXCEPT !.batches = @ + 1]
  /\ now' = now + idle
  /\ IF requiredEnvVars \subseteq env
     THEN handlerBegin(p, "PUT", "manual")
     ELSE /\ inv' = [inv EXCEPT ![p] = [IdleInv EXCEPT !.pc = "done", !.via = "manual",
                       !.sent = 1,
                       !.response = [code |-> 500, status |-> "error", stats |-> NoStats]]]
          /\ UNCHANGED processedTweets
  /\ UNCHANGED <<env, wh, replies, calls, pub, whCalls, retryIn, retryOut, aux>>

\* Line 40: the search, under retryApiCall.
Search(p, batch, script, d) ==
  /\ inv[p].pc = "search"
  /\ Authorized(script, {"TWITTER_BEARER_TOKEN"})
  /\ Affordable(Charged(script, {"TWITTER_BEARER_TOKEN"}), d)
  /\ used.mentions + Len(batch) <= MaxMentions
  /\ LET r == retryApiCall(script, "Twitter Search", DefaultMaxRetries, d, now)
     IN /\ r.done # "ok" => batch = <<>>
        /\ used' = [Spend(used, Charged(script, {"TWITTER_BEARER_TOKEN"}), d)
                      EXCEPT !.mentions = @ + Len(batch)]
        /\ now' = r.t
        /\ inv' = [inv EXCEPT ![p] =
                     IF r.done = "ok"
                     THEN [Tried(@, r.calls) EXCEPT !.mentions = batch, !.pc = "loop"]
                     ELSE outerCatch(Tried(@, r.calls), r.error)]
  /\ UNCHANGED <<env, processedTweets, wh, replies, calls, pub, whCalls, retryIn, retryOut, aux>>

\* Lines 47-77 and 111-120: the top of one loop iteration, or the end of the loop.
LoopTop(p) ==
  /\ inv[p].pc = "loop"
  /\ LET s == inv[p]
     IN IF s.idx > Len(s.mentions)
        THEN /\ inv' = [inv EXCEPT ![p] = summarize(s, processedTweets, now)]
             /\ processedTweets' = cleanupOldTweets(processedTweets, now)
             /\ UNCHANGED calls
        ELSE IF budgetExceeded(now, s.startTime)
        THEN /\ inv' = [inv EXCEPT ![p] =
                          summarize(stopBatch(s), processedTweets, now)]
             /\ processedTweets' = cleanupOldTweets(processedTweets, now)
             /\ UNCHANGED calls
        ELSE LET id == s.mentions[s.idx]
             IN /\ calls' = [calls EXCEPT !.check = Bump(@, id, 1)]
                /\ processedTweets' = cleanupOldTweets(processedTweets, now)
                /\ inv' = [inv EXCEPT ![p] =
                     IF isTweetProcessed(processedTweets, id, now)
                     THEN [s EXCEPT !.idx = @ + 1]
                     ELSE [s EXCEPT !.walletPortfolio = "null",
                                    !.walletStrategies = "null",
                                    !.pc = IF id \in WalletIds THEN "wallet" ELSE "gen"]]
  /\ UNCHANGED <<now, env, wh, used, replies, pub, whCalls, retryIn, retryOut, aux>>

\* Promise.all of two retried fetches: resolves when both have resolved,
\* rejects as soon as one rejects.
promiseAll(r1, r2) ==
  IF r1.done = "ok" /\ r2.done = "ok"
  THEN [ok |-> TRUE, t |-> IF r1.t > r2.t THEN r1.t ELSE r2.t]
  ELSE IF r1.done = "ok" THEN [ok |-> FALSE, t |-> r2.t]
  ELSE IF r2.done = "ok" THEN [ok |-> FALSE, t |-> r1.t]
  ELSE [ok |-> FALSE, t |-> IF r1.t < r2.t THEN r1.t ELSE r2.t]

\* Mutant: each fetch that succeeded is assigned, whatever the other one did.
assignWalletDataSettled(s, ok1, val1, ok2, val2) ==
  [s EXCEPT !.walletPortfolio = IF ok1 THEN val1 ELSE @,
            !.walletStrategies = IF ok2 THEN val2 ELSE @]

\* Lines 81-84: [walletPortfolio, walletStrategies] = await Promise.all([...]);
\* the assignment happens only when the await does not raise.
assignWalletData(s, ok1, val1, ok2, val2) ==
  IF ok1 /\ ok2
  THEN [s EXCEPT !.walletPortfolio = val1, !.walletStrategies = val2]
  ELSE s

\* The datasets a call of generateGroqResponse is given.
NoArgs == [walletPortfolio |-> "none", walletStrategies |-> "none"]
GenArgs(s) ==
  [walletPortfolio |-> s.walletPortfolio, walletStrategies |-> s.walletStrategies]

\* Lines 77-91: the enrichment.
Enrich(p, script1, script2, d) ==
  /\ inv[p].pc = "wallet"
  /\ Affordable(Faults(script1) + Faults(script2), d)
  /\ used' = Spend(used, Faults(script1) + Faults(script2), d)
  /\ LET s == inv[p]
         id == s.mentions[s.idx]
         r1 == retryApiCall(script1, "Aura Portfolio", DefaultMaxRetries, d, now)
         r2 == retryApiCall(script2, "Aura Strategies", DefaultMaxRetries, d, now)
         r == promiseAll(r1, r2)
         a == assignWalletData(Tried(Tried(s, r1.calls), r2.calls),
                               r1.done = "ok", r1.val, r2.done = "ok", r2.val)
     IN /\ now' = r.t
        /\ inv' = [inv EXCEPT ![p] =
                     IF r.ok
                     THEN [a EXCEPT !.pc = "gen"]
                     ELSE [a EXCEPT !.errors = Append(@, [kind |-> "wallet", id |-> id]),
                                    !.pc = "gen"]]
  /\ UNCHANGED <<env, processedTweets, wh, replies, calls, pub, whCalls, retryIn, retryOut, aux>>

\* Line 94: the generation, under retryApiCall.
Generate(p, script, d) ==
  /\ inv[p].pc = "gen"
  /\ Authorized(script, {"GROQ_API_KEY"})
  /\ Affordable(Charged(script, {"GROQ_API_KEY"}), d)
  /\ used' = Spend(used, Charged(script, {"GROQ_API_KEY"}), d)
  /\ LET r == retryApiCall(script, "Groq AI", DefaultMaxRetries, d, now)
         s == Tried(inv[p], r.calls)
         id == s.mentions[s.idx]
     IN /\ now' = r.t
        /\ calls' = [calls EXCEPT !.gen = Bump(@, id, r.calls),
                                  !.genWith = [@ EXCEPT ![id] = GenArgs(s)]]
        /\ inv' = [inv EXCEPT ![p] =
                     IF r.done = "ok" THEN [s EXCEPT !.pc = "post"]
                     ELSE catchMention(s, id, r.error)]
  /\ UNCHANGED <<env, processedTweets, wh, replies, pub, whCalls, retryIn, retryOut, aux>>

\* Lines 97-103: the publish, under retryApiCall, then the insert and the count.
Post(p, script, d) ==
  /\ inv[p].pc = "post"
  /\ Authorized(script, PublishEnv)
  /\ Affordable(Charged(script, PublishEnv), d)
  /\ used' = Spend(used, Charged(script, PublishEnv), d)
  /\ LET r == retryApiCall(script, "Twitter Reply", DefaultMaxRetries, d, now)
         s == Tried(inv[p], r.calls)
         id == s.mentions[s.idx]
     IN /\ now' = r.t
        /\ replies' = Bump(replies, id, r.created)
        /\ IF r.done = "ok"
           THEN /\ processedTweets' = addProcessedTweet(processedTweets, id, r.t)
                /\ calls' = [calls EXCEPT !.post = Bump(@, id, r.calls),
                                          !.add = Bump(@, id, 1)]
                /\ pub' = [pub EXCEPT !.ok = Bump(@, id, 1),
                                      !.counted = Bump(@, id, 1),
                                      !.firstOkAt[id] = IF @ < 0 THEN r.t ELSE @]
                /\ inv' = [inv EXCEPT ![p] =
                             [s EXCEPT !.processedCount = @ + 1,
                                       !.idx = @ + 1,
                                       !.pc = "loop"]]
           ELSE /\ calls' = [calls EXCEPT !.post = Bump(@, id, r.calls)]
                /\ inv' = [inv EXCEPT ![p] = catchMention(s, id, r.error)]
                /\ UNCHANGED <<processedTweets, pub>>
  /\ UNCHANGED <<env, wh, whCalls, retryIn, retryOut, aux>>

----------------------------------------------------------------------------
(* api/teckaibot.js: the POST branch of the handler and handleMentionEvent *)

BotName == "teckaibot"
ScreenNames == {"alice", BotName, "undefined"}   \* "undefined": tweet.user is missing

\* process.env.BOT_USERNAME
botUsername == IF "BOT_USERNAME" \in env THEN BotName ELSE "undefined"

Event(id, retweet, user, mentionsBot) ==
  [id |-> id, retweet |-> retweet, user |-> user, mentionsBot |-> mentionsBot]

\* The elements of tweet_create_events tried: a mention of the bot by another
\* account, a retweet, a tweet of the bot itself, a tweet that does not mention
\* the bot, and a tweet without user.
Events ==
  {Event(id, FALSE, "alice", TRUE) : id \in Ids}
  \cup {Event("T1", TRUE, "alice", TRUE), Event("T1", FALSE, BotName, TRUE),
        Event("T1", FALSE, "alice", FALSE), Event("T1", FALSE, "undefined", TRUE)}

\* The request bodies tried: a list of tweet events, direct messages only,
\* neither of the two, or no body at all.
Bodies ==
  {[kind |-> "tweets", events |-> e] : e \in UNION {[1..n -> Events] : n \in 1..MaxEvents}}
  \cup {[kind |-> k, events |-> <<>>] : k \in {"dm", "none", "nobody"}}

\* Mutant: no tweet is taken for one of the bot's own.
isSelfMentionNever(tweet) == FALSE

\* Lines 166-170
isSelfMention(tweet) == tweet.user = botUsername

IdleWh ==
  [pc |-> "idle", events |-> <<>>, idx |-> 1,
   walletPortfolio |-> "null", walletStrategies |-> "null",
   response |-> NoResponse, sent |-> 0]

\* Lines 44-51: both exits of the POST branch; sent counts the responses.
respondOk(w) ==
  [w EXCEPT !.pc = "done", !.sent = @ + 1,
            !.response = [code |-> 200, status |-> "ok", stats |-> NoStats]]

\* Mutant: an error while the events are handled is answered as a server error.
respondErrorAs500(w) ==
  [w EXCEPT !.pc = "done", !.sent = @ + 1,
            !.response = [code |-> 500, status |-> "error", stats |-> NoStats]]

respondError(w) ==
  [w EXCEPT !.pc = "done", !.sent = @ + 1,
            !.response = [code |-> 200, status |-> "error", stats |-> NoStats]]

\* Lines 31-42: a delivery arrives, idle ms after the last response.
WebhookPost(body, idle) ==
  /\ HostIdle
  /\ used.deliveries < MaxDeliveries
  /\ used.events + Len(body.events) <= MaxEvents
  /\ used' = [used EXCEPT !.deliveries = @ + 1, !.events = @ + Len(body.events)]
  /\ now' = now + idle
  /\ wh' = IF body.kind = "nobody" THEN respondError(IdleWh)
           ELSE IF body.kind = "none" THEN respondOk(IdleWh)
           ELSE [IdleWh EXCEPT !.pc = "loop", !.events = body.events]
  /\ UNCHANGED <<env, processedTweets, inv, replies, calls, pub, whCalls, retryIn, retryOut, aux>>

\* Lines 108-137: the top of one loop iteration, or the end of the loop.
WebhookLoopTop ==
  /\ wh.pc = "loop"
  /\ wh' = IF wh.idx > Len(wh.events) THEN respondOk(wh)
           ELSE LET tweet == wh.events[wh.idx]
                IN IF tweet.retweet \/ isSelfMention(tweet)
                   THEN [wh EXCEPT !.idx = @ + 1]
                   ELSE IF ~(tweet.mentionsBot /\ botUsername = BotName)
                   THEN [wh EXCEPT !.idx = @ + 1]
                   ELSE IF tweet.user = "undefined"
                   THEN respondError(wh)
                   ELSE [wh EXCEPT !.walletPortfolio = "null",
                                   !.walletStrategies = "null",
                                   !.pc = IF tweet.id \in WalletIds THEN "wallet" ELSE "gen"]
  /\ UNCHANGED <<now, env, processedTweets, inv, used, replies, calls, pub, whCalls,
                 retryIn, retryOut, aux>>

\* Lines 137-150: the enrichment; neither fetch is retried.
WebhookEnrich(o1, o2, d) ==
  /\ wh.pc = "wallet"
  /\ Affordable(Faults(<<o1, o2>>), d)
  /\ used' = Spend(used, Faults(<<o1, o2>>), d)
  /\ now' = now + d
  /\ wh' = [assignWalletData(wh, o1.res = "ok", o1.val, o2.res = "ok", o2.val)
             EXCEPT !.pc = "gen"]
  /\ UNCHANGED <<env, processedTweets, inv, replies, calls, pub, whCalls, retryIn, retryOut, aux>>

\* Line 153: the generation, not retried; lines 160-162 catch its error.
WebhookGenerate(o, d) ==
  /\ wh.pc = "gen"
  /\ Authorized(<<o>>, {"GROQ_API_KEY"})
  /\ Affordable(Charged(<<o>>, {"GROQ_API_KEY"}), d)
  /\ used' = Spend(used, Charged(<<o>>, {"GROQ_API_KEY"}), d)
  /\ now' = now + d
  /\ whCalls' = [whCalls EXCEPT !.gen = Bump(@, wh.events[wh.idx].id, 1),
                                !.genWith = [@ EXCEPT ![wh.events[wh.idx].id] = GenArgs(wh)]]
  /\ wh' = IF o.res = "ok" THEN [wh EXCEPT !.pc = "post"]
           ELSE [wh EXCEPT !.idx = @ + 1, !.pc = "loop"]
  /\ UNCHANGED <<env, processedTweets, inv, replies, calls, pub, retryIn, retryOut, aux>>

\* Lines 156-162: the publish, not retried.
WebhookPublish(o, d) ==
  /\ wh.pc = "post"
  /\ Authorized(<<o>>, PublishEnv)
  /\ Affordable(Charged(<<o>>, PublishEnv), d)
  /\ used' = Spend(used, Charged(<<o>>, PublishEnv), d)
  /\ now' = now + d
  /\ LET id == wh.events[wh.idx].id
     IN /\ whCalls' = [whCalls EXCEPT !.post = Bump(@, id, 1),
                                      !.ok = Bump(@, id, IF o.res = "ok" THEN 1 ELSE 0)]
        /\ replies' = Bump(replies, id, IF o.created THEN 1 ELSE 0)
  /\ wh' = [wh EXCEPT !.idx = @ + 1, !.pc = "loop"]
  /\ UNCHANGED <<env, processedTweets, inv, calls, pub, retryIn, retryOut, aux>>

----------------------------------------------------------------------------
ZeroIds == [i \in Ids |-> 0]
NotRun == [done |-> "notrun"]

\* The state of a fresh process: nothing received yet.
Fresh ==
  /\ now = 0
  /\ processedTweets = << >>
  /\ inv = [p \in Invocations |-> IdleInv]
  /\ wh = IdleWh
  /\ used = [batches |-> 0, mentions |-> 0, deliveries |-> 0, events |-> 0,
             faults |-> 0, slow |-> 0]
  /\ replies = ZeroIds
  /\ calls = [check |-> ZeroIds, gen |-> ZeroIds, post |-> ZeroIds, add |-> ZeroIds,
              genWith |-> [i \in Ids |-> NoArgs]]
  /\ pub = [ok |-> ZeroIds, counted |-> ZeroIds, firstOkAt |-> [i \in Ids |-> 0 - 1]]
  /\ whCalls = [gen |-> ZeroIds, post |-> ZeroIds, ok |-> ZeroIds,
                genWith |-> [i \in Ids |-> NoArgs]]

NoStoreCall ==
  [op |-> "none", id |-> "none", result |-> FALSE, swept |-> {},
   insertedAt |-> [i \in Ids |-> 0 - 1], n |-> 0,
   stats |-> [totalProcessed |-> 0, lastHour |-> 0, last24Hours |-> 0],
   fault |-> "none", raised |-> FALSE]

NoCall == [api |-> "none", id |-> "none", took |-> 0, ok |-> FALSE]

\* The timeout variant before its first request.  armed: the timers set and
\* not yet fired or cleared; aborted: the controllers whose abort() has run.
IdleTv ==
  [pc |-> "idle", startTime |-> 0, mentions |-> <<>>, idx |-> 1,
   processedCount |-> 0, errors |-> <<>>, walletData |-> FALSE,
   armed |-> {}, aborted |-> {}, code |-> 0, status |-> "none", last |-> NoCall]

\* The single-function specifications have not run.
AuxIdle ==
  /\ storeLog = NoStoreCall
  /\ textIn = NotRun
  /\ textOut = NotRun
  /\ tv = IdleTv

Init ==
  /\ Fresh
  /\ env \in Envs
  /\ retryIn = NotRun
  /\ retryOut = NotRun
  /\ AuxIdle

\* The poll endpoint.
Next ==
  \/ \E m \in Methods, idle \in IdleDurations : HandlerStart(SerialSlot, m, idle)
  \/ \E idle \in IdleDurations : ManualTrigger(SerialSlot, idle)
  \/ \E b \in Batches, sc \in Scripts(ReadOutcomes, DefaultMaxRetries), d \in CallDurations :
        Search(SerialSlot, b, sc, d)
  \/ LoopTop(SerialSlot)
  \/ \E s1, s2 \in Scripts(ReadOutcomes, DefaultMaxRetries), d \in CallDurations :
        Enrich(SerialSlot, s1, s2, d)
  \/ \E sc \in Scripts(ReadOutcomes, DefaultMaxRetries), d \in CallDurations :
        Generate(SerialSlot, sc, d)
  \/ \E sc \in Scripts(PublishOutcomes, DefaultMaxRetries), d \in CallDurations :
        Post(SerialSlot, sc, d)

Spec == Init /\ [][Next]_vars

\* The steps of a request that has been received: each ends when the calls it
\* awaits have returned or raised.
Settle ==
  \/ \E b \in Batches, sc \in Scripts(ReadOutcomes, DefaultMaxRetries), d \in CallDurations :
        Search(SerialSlot, b, sc, d)
  \/ LoopTop(SerialSlot)
  \/ \E s1, s2 \in Scripts(ReadOutcomes, DefaultMaxRetries), d \in CallDurations :
        Enrich(SerialSlot, s1, s2, d)
  \/ \E sc \in Scripts(ReadOutcomes, DefaultMaxRetries), d \in CallDurations :
        Generate(SerialSlot, sc, d)
  \/ \E sc \in Scripts(PublishOutcomes, DefaultMaxRetries), d \in CallDurations :
        Post(SerialSlot, sc, d)

\* The first request of a process, by either way in.
FirstRequest ==
  /\ used.batches = 0
  /\ \/ \E m \in Methods, idle \in IdleDurations : HandlerStart(SerialSlot, m, idle)
     \/ \E idle \in IdleDurations : ManualTrigger(SerialSlot, idle)

LiveNext == FirstRequest \/ Settle

\* One request, every awaited call of which settles.
LiveSpec == Init /\ [][LiveNext]_vars /\ WF_vars(Settle)

\* The webhook endpoint.
WebhookNext ==
  \/ \E b \in Bodies, idle \in IdleDurations : WebhookPost(b, idle)
  \/ WebhookLoopTop
  \/ \E o1, o2 \in ReadOutcomes, d \in CallDurations : WebhookEnrich(o1, o2, d)
  \/ \E o \in ReadOutcomes, d \in CallDurations : WebhookGenerate(o, d)
  \/ \E o \in PublishOutcomes, d \in CallDurations : WebhookPublish(o, d)

WebhookSpec == Init /\ [][WebhookNext]_vars

\* Every awaited call of the handler settles: it returns or it raises.
WebhookLiveSpec == WebhookSpec /\ WF_vars(WebhookNext)

----------------------------------------------------------------------------
(* The poll endpoint in a process that runs its requests interleaved: a     *)
(* request is taken while another one is suspended at an await.             *)

ConcurrentInit ==
  /\ Fresh
  /\ env = AllEnv
  /\ retryIn = NotRun
  /\ retryOut = NotRun
  /\ AuxIdle

\* Every call returns within the budget of a batch.
OverlapDurations == {d \in CallDurations : d <= maxExecutionTime}

\* Every search lists one mention at most.
OverlapBatches == {b \in Batches : Len(b) <= 1}

ConcurrentNext ==
  \E p \in Invocations :
    \/ OverlappingStart(p)
    \/ \E b \in OverlapBatches, sc \in Scripts(ReadOutcomes, DefaultMaxRetries),
          d \in OverlapDurations :
          Search(p, b, sc, d)
    \/ LoopTop(p)
    \/ \E s1, s2 \in Scripts(ReadOutcomes, DefaultMaxRetries), d \in OverlapDurations :
          Enrich(p, s1, s2, d)
    \/ \E sc \in Scripts(ReadOutcomes, DefaultMaxRetries), d \in OverlapDurations :
          Generate(p, sc, d)
    \/ \E sc \in Scripts(PublishOutcomes, DefaultMaxRetries), d \in OverlapDurations :
          Post(p, sc, d)

ConcurrentSpec == ConcurrentInit /\ [][ConcurrentNext]_vars

----------------------------------------------------------------------------
(* The poll endpoint with each request kept in a record of its own: the     *)
(* host runs one request at a time, and the record of a finished request    *)
(* stays until its slot is taken again.                                     *)

\* The records are taken in turn.
NextSlot == IF used.batches % 2 = 0 THEN "inv1" ELSE "inv2"

SuccessiveNext ==
  \E p \in Invocations :
    \/ \E idle \in IdleDurations : p = NextSlot /\ HandlerStart(p, "GET", idle)
    \/ \E b \in Batches, sc \in Scripts(ReadOutcomes, DefaultMaxRetries),
          d \in CallDurations : Search(p, b, sc, d)
    \/ LoopTop(p)
    \/ \E s1, s2 \in Scripts(ReadOutcomes, DefaultMaxRetries), d \in CallDurations :
          Enrich(p, s1, s2, d)
    \/ \E sc \in Scripts(ReadOutcomes, DefaultMaxRetries), d \in CallDurations :
          Generate(p, sc, d)
    \/ \E sc \in Scripts(PublishOutcomes, DefaultMaxRetries), d \in CallDurations :
          Post(p, sc, d)

SuccessiveSpec == ConcurrentInit /\ [][SuccessiveNext]_vars

----------------------------------------------------------------------------
(* retryApiCall on its own: every script of outcomes, every bound *)

RetryOutcomes ==
  {Outcome(r, FALSE, v) : r \in {"ok", "rate", "other"}, v \in Values}
  \cup {TextOutcome(v) : v \in Values}

RetryInputs ==
  UNION {[script : [1..n -> RetryOutcomes], apiName : {"Groq AI", "Twitter Reply"},
          maxRetries : {n}, d : CallDurations, t : {0}] : n \in 1..MaxRetriesBound}

RetryInit ==
  /\ Fresh
  /\ env = AllEnv
  /\ retryIn \in RetryInputs
  /\ retryOut = NotRun
  /\ AuxIdle

RetryApply ==
  /\ retryOut = NotRun
  /\ retryOut' = retryApiCall(retryIn.script, retryIn.apiName, retryIn.maxRetries,
                              retryIn.d, retryIn.t)
  /\ UNCHANGED <<now, env, processedTweets, inv, wh, used, replies, calls, pub,
                 whCalls, retryIn, aux>>

RetryNext == RetryApply

RetrySpec == RetryInit /\ [][RetryNext]_vars

----------------------------------------------------------------------------
(* utils/stateManager.js on its own: its exported functions called at any   *)
(* time, in any order                                                       *)

MaxStoreCalls == 4

\* Time between two calls: a minute, and a minute less or more than 24 hours.
StoreGaps == {60000, MAX_AGE - 60000, MAX_AGE + 60000}

StoreCall(op, id, result, store) ==
  [op |-> op, id |-> id, result |-> result,
   swept |-> DOMAIN processedTweets \ DOMAIN store,
   insertedAt |-> IF op = "addProcessedTweet"
                  THEN [storeLog.insertedAt EXCEPT ![id] = now']
                  ELSE storeLog.insertedAt,
   n |-> storeLog.n + 1,
   stats |-> IF op = "getProcessingStats"
             THEN getProcessingStats(processedTweets, now')
             ELSE NoStoreCall.stats,
   fault |-> "none", raised |-> FALSE]

StoreStep(gap) ==
  /\ storeLog.n < MaxStoreCalls
  /\ now' = now + gap
  /\ UNCHANGED <<env, inv, wh, used, replies, calls, pub, whCalls, retryIn,
                 retryOut, textIn, textOut, tv>>

StoreAdd(id, gap) ==
  /\ StoreStep(gap)
  /\ processedTweets' = addProcessedTweet(processedTweets, id, now')
  /\ storeLog' = StoreCall("addProcessedTweet", id, FALSE, processedTweets')

StoreIsProcessed(id, gap) ==
  /\ StoreStep(gap)
  /\ processedTweets' = cleanupOldTweets(processedTweets, now')
  /\ storeLog' = StoreCall("isTweetProcessed", id,
                           isTweetProcessed(processedTweets, id, now'),
                           processedTweets')

StoreStats(gap) ==
  /\ StoreStep(gap)
  /\ processedTweets' = cleanupOldTweets(processedTweets, now')
  /\ storeLog' = StoreCall("getProcessingStats", "none",
                           getProcessingStats(processedTweets, now').totalProcessed > 0,
                           processedTweets')

StoreList(gap) ==
  /\ StoreStep(gap)
  /\ processedTweets' = cleanupOldTweets(processedTweets, now')
  /\ storeLog' = StoreCall("getProcessedTweets", "none",
                           getProcessedTweets(processedTweets, now') # {},
                           processedTweets')

StoreInit ==
  /\ Fresh
  /\ env = AllEnv
  /\ retryIn = NotRun
  /\ retryOut = NotRun
  /\ AuxIdle

StoreNext ==
  \/ \E id \in Ids, gap \in StoreGaps : StoreAdd(id, gap)
  \/ \E id \in Ids, gap \in StoreGaps : StoreIsProcessed(id, gap)
  \/ \E gap \in StoreGaps : StoreStats(gap)
  \/ \E gap \in StoreGaps : StoreList(gap)

StoreSpec == StoreInit /\ [][StoreNext]_vars

----------------------------------------------------------------------------
(* utils/stateManager.js when a statement of the called function throws *)

\* The records the loop of the sweep can have deleted when it throws.
Deletable(t) ==
  SUBSET {i \in DOMAIN processedTweets : expired(t - processedTweets[i].timestamp)}

\* Every statement of the four functions lies in the try of its function, and
\* the four catch blocks end without a throw: the call returns to its caller.
FaultyCall(op, id, result, store, fault, stats) ==
  [StoreCall(op, id, result, store) EXCEPT !.fault = fault, !.stats = stats,
                                           !.raised = FALSE]

FaultyAdd(id, gap, fault) ==
  /\ StoreStep(gap)
  /\ fault \in {"none", "body"}
  /\ processedTweets' = addProcessedTweetUnder(processedTweets, id, now', fault)
  /\ storeLog' = [FaultyCall("addProcessedTweet", id, FALSE, processedTweets',
                             fault, zeroStats)
                    EXCEPT !.insertedAt = IF fault = "body" THEN storeLog.insertedAt
                                          ELSE @]

FaultyIsProcessed(id, gap, fault) ==
  /\ StoreStep(gap)
  /\ \E gone \in Deletable(now') :
       /\ fault # "sweep" => gone = {}
       /\ processedTweets' = cleanupOldTweetsUnder(processedTweets, now', fault, gone)
       /\ storeLog' =
            FaultyCall("isTweetProcessed", id,
                       isTweetProcessedUnder(processedTweets, id, now', fault, gone),
                       processedTweets', fault, zeroStats)

FaultyStats(gap, fault) ==
  /\ StoreStep(gap)
  /\ \E gone \in Deletable(now') :
       /\ fault # "sweep" => gone = {}
       /\ processedTweets' = cleanupOldTweetsUnder(processedTweets, now', fault, gone)
       /\ storeLog' =
            FaultyCall("getProcessingStats", "none", fault # "body", processedTweets',
                       fault,
                       getProcessingStatsUnder(processedTweets, now', fault, gone))

FaultyList(gap, fault) ==
  /\ StoreStep(gap)
  /\ \E gone \in Deletable(now') :
       /\ fault # "sweep" => gone = {}
       /\ processedTweets' = cleanupOldTweetsUnder(processedTweets, now', fault, gone)
       /\ storeLog' =
            FaultyCall("getProcessedTweets", "none",
                       getProcessedTweetsUnder(processedTweets, now', fault, gone) # {},
                       processedTweets', fault, zeroStats)

StoreFaultNext ==
  \/ \E id \in Ids, gap \in StoreGaps, fault \in FaultSites : FaultyAdd(id, gap, fault)
  \/ \E id \in Ids, gap \in StoreGaps, fault \in FaultSites :
       FaultyIsProcessed(id, gap, fault)
  \/ \E gap \in StoreGaps, fault \in FaultSites : FaultyStats(gap, fault)
  \/ \E gap \in StoreGaps, fault \in FaultSites : FaultyList(gap, fault)

StoreFaultSpec == StoreInit /\ [][StoreFaultNext]_vars

----------------------------------------------------------------------------
(* The poll handler with timeout handling (the variant of checkMentions.js   *)
(* that arms a timer around each external call)                             *)

SearchTimeout == 10000     \* line 41
WalletTimeout == 8000      \* line 86
GenerateTimeout == 8000    \* line 103
PublishTimeout == 5000     \* line 110

\* Time an external call takes: less than its timer, or more.
SearchTimes == {1000, SearchTimeout + 1000}
WalletTimes == {1000, WalletTimeout + 1000}
GenerateTimes == {1000, GenerateTimeout + 1000}
PublishTimes == {1000, PublishTimeout + 1000}

Timer(ctl, id, due) == [ctl |-> ctl, id |-> id, due |-> due]

\* setTimeout(() => controller.abort(), ms)
arm(s, ctl, id, due) == [s EXCEPT !.armed = @ \cup {Timer(ctl, id, due)}]

\* clearTimeout
clear(s, ctl, id, due) == [s EXCEPT !.armed = @ \ {Timer(ctl, id, due)}]

\* The handler is suspended until t: the timers that are due run their
\* callback, which aborts the controller it was created with.
elapse(s, t) ==
  LET fired == {x \in s.armed : x.due <= t}
  IN [s EXCEPT !.armed = @ \ fired,
               !.aborted = @ \cup {[ctl |-> x.ctl, id |-> x.id] : x \in fired}]

\* Lines 127-136
tvSummarize(s) ==
  [s EXCEPT !.pc = "done", !.code = 200,
            !.status = batchStatus(s.errors, s.processedCount)]

\* Lines 138-147
tvOuterCatch(s) == [s EXCEPT !.pc = "done", !.code = 500, !.status = "error"]

\* Lines 120-123
tvCatchMention(s, id) ==
  [s EXCEPT !.errors = Append(@, [kind |-> "mention", id |-> id]),
            !.idx = @ + 1, !.pc = "loop"]

TvUnchanged ==
  UNCHANGED <<env, inv, wh, used, replies, calls, pub, whCalls, retryIn, retryOut,
              storeLog, textIn, textOut>>

\* Lines 7-43: the request of a fresh process arrives; up to the await of the
\* search.
TvStart(method) ==
  /\ tv.pc = "idle"
  /\ now' = now
  /\ LET s == [tv EXCEPT !.startTime = now']
     IN IF method # "GET"
        THEN /\ tv' = [s EXCEPT !.pc = "done", !.code = 405]
             /\ UNCHANGED processedTweets
        ELSE IF "BOT_USERNAME" \notin env
        THEN /\ tv' = tvOuterCatch(s)
             /\ UNCHANGED processedTweets
        ELSE /\ tv' = [arm(s, "search", "none", now' + SearchTimeout)
                         EXCEPT !.pc = "search"]
             /\ processedTweets' = cleanupOldTweets(processedTweets, now')
  /\ TvUnchanged

\* Lines 43-47: the search returns or throws after d ms.  Its controller is
\* handed to nothing.
TvSearch(batch, ok, d) ==
  /\ tv.pc = "search"
  /\ now' = now + d
  /\ LET s == [elapse(tv, now') EXCEPT
                 !.last = [api |-> "search", id |-> "none", took |-> d, ok |-> ok]]
     IN tv' = IF ok
              THEN [clear(s, "search", "none", now + SearchTimeout)
                      EXCEPT !.mentions = batch, !.pc = "loop"]
              ELSE tvOuterCatch(s)
  /\ UNCHANGED processedTweets
  /\ TvUnchanged

\* Lines 51-103: the top of one iteration, up to the next external call.
TvLoopTop ==
  /\ tv.pc = "loop"
  /\ now' = now
  /\ IF tv.idx > Len(tv.mentions)
     THEN /\ tv' = tvSummarize(tv)
          /\ processedTweets' = cleanupOldTweets(processedTweets, now)
     ELSE IF budgetExceeded(now, tv.startTime)
     THEN /\ tv' = tvSummarize(stopBatch(tv))
          /\ processedTweets' = cleanupOldTweets(processedTweets, now)
     ELSE LET id == tv.mentions[tv.idx]
          IN /\ processedTweets' = cleanupOldTweets(processedTweets, now)
             /\ tv' = IF isTweetProcessed(processedTweets, id, now)
                      THEN [tv EXCEPT !.idx = @ + 1]
                      ELSE IF id \in WalletIds
                      THEN [arm(tv, "wallet", id, now + WalletTimeout)
                              EXCEPT !.pc = "wallet", !.walletData = FALSE]
                      ELSE [arm(tv, "ai", id, now + GenerateTimeout)
                              EXCEPT !.pc = "gen", !.walletData = FALSE]
  /\ TvUnchanged

\* Lines 83-103: the two wallet fetches listen to the signal of the wallet
\* controller (lines 168-170, 191-193), so they reject when its timer runs.
TvWallet(ok, d) ==
  /\ tv.pc = "wallet"
  /\ LET id == tv.mentions[tv.idx]
         cut == d > WalletTimeout
         t == IF cut THEN now + WalletTimeout ELSE now + d
         s == [elapse(tv, t) EXCEPT
                 !.last = [api |-> "wallet", id |-> id, took |-> d, ok |-> ok]]
         after == IF ok /\ ~cut
                  THEN [clear(s, "wallet", id, now + WalletTimeout)
                          EXCEPT !.walletData = TRUE]
                  ELSE [s EXCEPT !.errors = Append(@, [kind |-> "wallet", id |-> id])]
     IN /\ now' = t
        /\ tv' = [arm(after, "ai", id, t + GenerateTimeout) EXCEPT !.pc = "gen"]
  /\ UNCHANGED processedTweets
  /\ TvUnchanged

\* Lines 105-110: generateGroqResponse (utils/twitter.js lines 146-206) has
\* five parameters and its fetch has no signal: the sixth argument is dropped,
\* and the call ends when the service answers.
TvGenerate(ok, d) ==
  /\ tv.pc = "gen"
  /\ now' = now + d
  /\ LET id == tv.mentions[tv.idx]
         s == [elapse(tv, now') EXCEPT
                 !.last = [api |-> "gen", id |-> id, took |-> d, ok |-> ok]]
     IN tv' = IF ok
              THEN [arm(clear(s, "ai", id, now + GenerateTimeout),
                        "reply", id, now' + PublishTimeout) EXCEPT !.pc = "post"]
              ELSE tvCatchMention(s, id)
  /\ UNCHANGED processedTweets
  /\ TvUnchanged

\* Lines 112-119: postTwitterReply (utils/twitter.js lines 214-276) has two
\* parameters and its fetch has no signal.
TvPost(ok, d) ==
  /\ tv.pc = "post"
  /\ now' = now + d
  /\ LET id == tv.mentions[tv.idx]
         s == [elapse(tv, now') EXCEPT
                 !.last = [api |-> "post", id |-> id, took |-> d, ok |-> ok]]
     IN IF ok
        THEN /\ tv' = [clear(s, "reply", id, now + PublishTimeout)
                         EXCEPT !.processedCount = @ + 1, !.idx = @ + 1, !.pc = "loop"]
             /\ processedTweets' = addProcessedTweet(processedTweets, id, now')
        ELSE /\ tv' = tvCatchMention(s, id)
             /\ UNCHANGED processedTweets
  /\ TvUnchanged

TimeoutInit ==
  /\ Fresh
  /\ env \in {AllEnv, AllEnv \ {"BOT_USERNAME"}}
  /\ retryIn = NotRun
  /\ retryOut = NotRun
  /\ AuxIdle

TimeoutNext ==
  \/ \E method \in Methods : TvStart(method)
  \/ \E batch \in Batches, ok \in BOOLEAN, d \in SearchTimes : TvSearch(batch, ok, d)
  \/ TvLoopTop
  \/ \E ok \in BOOLEAN, d \in WalletTimes : TvWallet(ok, d)
  \/ \E ok \in BOOLEAN, d \in GenerateTimes : TvGenerate(ok, d)
  \/ \E ok \in BOOLEAN, d \in PublishTimes : TvPost(ok, d)

TimeoutSpec == TimeoutInit /\ [][TimeoutNext]_vars

----------------------------------------------------------------------------
(* The reply generators on their own, after the fetch has succeeded: every  *)
(* result of the generation service, every actor                            *)

Pad(n) == [i \in 1..n |-> "x"]

Usernames == {<<"a", "l">>, <<"b", "o", "b">>}

PadLengths == {0, 1, ReplyLimit - 10, ReplyLimit, MaxContentLength}

\* Filler text with or without a handle in it, bare or wrapped in blanks.
Contents ==
  LET bare == {Pad(pre) \o m \o Pad(post) :
                 pre \in PadLengths, post \in PadLengths,
                 m \in {<< >>} \cup {Handle(u) : u \in Usernames}}
  IN bare \cup {<<" ">> \o c \o <<" ">> : c \in bare}

Results ==
  {Result("content", c) : c \in Contents}
  \cup {Result("nocontent", << >>), Result("nochoices", << >>)}

TextInit ==
  /\ Fresh
  /\ env = AllEnv
  /\ retryIn = NotRun
  /\ retryOut = NotRun
  /\ storeLog = NoStoreCall
  /\ textIn \in [username : Usernames, result : Results]
  /\ textOut = NotRun
  /\ tv = IdleTv

TextIdle ==
  /\ textOut = NotRun
  /\ UNCHANGED <<now, env, processedTweets, inv, wh, used, replies, calls, pub,
                 whCalls, retryIn, retryOut, storeLog, textIn, tv>>

\* checkMentions.js line 98: the reply the poll handler hands to the publisher
PollReply ==
  /\ TextIdle
  /\ textOut' = [path |-> "poll"] @@ generateGroqResponse(textIn.username, textIn.result)

\* teckaibot.js lines 153-156: the reply the webhook handler hands to the publisher
WebhookReply ==
  /\ TextIdle
  /\ textOut' = [path |-> "webhook"]
                  @@ webhookGenerateGroqResponse(textIn.username, textIn.result)

TextNext == PollReply \/ WebhookReply

TextSpec == TextInit /\ [][TextNext]_vars

----------------------------------------------------------------------------
(* extractWalletAddress on its own: texts made of addresses, near-addresses *)
(* and filler                                                               *)

AddressLength == 42    \* "0x" and 40 hexadecimal characters
MaxPieces == 3         \* pieces a text is made of

\* The character class [a-fA-F0-9]
HexChars ==
  {"0", "1", "2", "3", "4", "5", "6", "7", "8", "9",
   "a", "b", "c", "d", "e", "f", "A", "B", "C", "D", "E", "F"}

\* /0x[a-fA-F0-9]{40}/ matches text at offset i (counted from 0).
matchesAt(text, i) ==
  /\ i + AddressLength <= Len(text)
  /\ text[i + 1] = "0"
  /\ text[i + 2] = "x"
  /\ \A k \in 3..AddressLength : text[i + k] \in HexChars

\* text.match(walletRegex): the offsets of the matches, found from left to
\* right, each search starting where the match before it ended.
RECURSIVE matchAll(_, _)
matchAll(text, from) ==
  LET starts == {i \in from..(Len(text) - AddressLength) : matchesAt(text, i)}
  IN IF starts = {} THEN << >>
     ELSE LET first == CHOOSE i \in starts : \A j \in starts : i <= j
          IN <<first>> \o matchAll(text, first + AddressLength)

NoAddress == [found |-> FALSE, address |-> << >>]

\* Mutant: the last match is returned instead of the first.
extractLastWalletAddress(text) ==
  LET matches == matchAll(text, 0)
  IN IF matches = << >> THEN NoAddress
     ELSE [found |-> TRUE,
           address |-> SubSeq(text, matches[Len(matches)] + 1,
                              matches[Len(matches)] + AddressLength)]

\* checkMentions.js lines 143-148 and teckaibot.js lines 173-178
extractWalletAddress(text) ==
  LET matches == matchAll(text, 0)
  IN IF matches = << >> THEN NoAddress
     ELSE [found |-> TRUE,
           address |-> SubSeq(text, matches[1] + 1, matches[1] + AddressLength)]

Hex(n, c) == [i \in 1..n |-> c]

\* Addresses in lower, upper and mixed case, and strings that fall short of
\* one: too few hexadecimal characters, one too many, a capital X, a character
\* outside the class, and plain words.
Pieces ==
  {<<"0", "x">> \o Hex(40, "a"), <<"0", "x">> \o Hex(40, "F"),
   <<"0", "x">> \o Hex(20, "9") \o Hex(20, "c"),
   <<"0", "x">> \o Hex(39, "b"), <<"0", "x">> \o Hex(41, "d"),
   <<"0", "X">> \o Hex(40, "a"), <<"0", "x">> \o Hex(39, "a") \o <<"g">>,
   <<"h", "i", " ">>, <<" ">>}

RECURSIVE Texts(_)
Texts(n) ==
  IF n = 0 THEN {<< >>}
  ELSE LET shorter == Texts(n - 1)
       IN shorter \cup {t \o q : t \in shorter, q \in Pieces}

WalletInit ==
  /\ Fresh
  /\ env = AllEnv
  /\ retryIn = NotRun
  /\ retryOut = NotRun
  /\ storeLog = NoStoreCall
  /\ textIn \in [text : Texts(MaxPieces)]
  /\ textOut = NotRun
  /\ tv = IdleTv

\* checkMentions.js line 72, teckaibot.js line 132
Extract ==
  /\ TextIdle
  /\ textOut' = extractWalletAddress(textIn.text)

WalletNext == Extract

WalletSpec == WalletInit /\ [][WalletNext]_vars

----------------------------------------------------------------------------
(* Properties *)

\* The record of id is in the store and not older than the retention window.
InStore(id) ==
  /\ id \in DOMAIN processedTweets
  /\ now - processedTweets[id].timestamp <= MAX_AGE

Elapsed(p) == now - inv[p].startTime

\* Invocation p is at the top of the loop iteration of mention id.
AtMention(p, id) ==
  /\ inv[p].pc = "loop"
  /\ inv[p].idx <= Len(inv[p].mentions)
  /\ inv[p].mentions[inv[p].idx] = id

Stepped(p) == inv'[p] # inv[p]

HasEntry(errors, kind) == \E i \in 1..Len(errors) : errors[i].kind = kind

\* C1: when the loop reaches, within the budget, a mention whose id is in the
\* store and not older than 24h, the iteration only advances to the next
\* mention: no generation, no publish, no insert, nothing counted, no error.
C1_SkipProcessed ==
  [][\A p \in Invocations, id \in Ids :
       (AtMention(p, id) /\ Elapsed(p) <= maxExecutionTime /\ InStore(id) /\ Stepped(p))
       => /\ inv'[p] = [inv[p] EXCEPT !.idx = @ + 1]
          /\ calls'.gen = calls.gen
          /\ calls'.post = calls.post
          /\ calls'.add = calls.add
          /\ replies' = replies
          /\ pub' = pub]_vars

\* A first mention was skipped: the loop is past it with nothing counted and
\* no error, and its record is in the store.
C1_Witness ==
  \E p \in Invocations :
    /\ inv[p].pc = "loop"
    /\ inv[p].idx = 2
    /\ inv[p].processedCount = 0
    /\ inv[p].errors = <<>>
    /\ InStore(inv[p].mentions[1])
    /\ calls.check[inv[p].mentions[1]] >= 2

\* C2: as long as no more than 24h have passed since the first successful
\* publish for an id, the poll handler has published for it once and counted
\* it once, however often the id was listed.
C2_OncePerWindow ==
  \A id \in Ids :
    (pub.firstOkAt[id] >= 0 /\ now - pub.firstOkAt[id] <= MAX_AGE)
    => (pub.ok[id] = 1 /\ pub.counted[id] = 1)

\* A later batch listed an id published by an earlier batch and skipped it.
C2_Witness ==
  \E p \in Invocations :
    /\ used.batches = 2
    /\ inv[p].pc = "done"
    /\ Len(inv[p].mentions) = 1
    /\ inv[p].processedCount = 0
    /\ inv[p].errors = <<>>
    /\ pub.ok[inv[p].mentions[1]] = 1
    /\ calls.check[inv[p].mentions[1]] = 2

\* The step creates the record of id, or replaces it by a newer one.
Inserted(id) ==
  /\ id \in DOMAIN processedTweets'
  /\ id \notin DOMAIN processedTweets \/ processedTweets'[id] # processedTweets[id]

\* The step of p ends the iteration of mention id with a failure entry.
FailedOn(p, id) ==
  /\ Len(inv'[p].errors) = Len(inv[p].errors) + 1
  /\ inv'[p].errors[Len(inv'[p].errors)] = [kind |-> "mention", id |-> id]

\* C3: a record is inserted exactly by the step in which the publish for that
\* id returns, the invocation counts one more in that step, and an id whose
\* generation or publish failed is not in the store after the failing step.
C3_InsertIffPublished ==
  [][\A id \in Ids :
       /\ Inserted(id) <=> (pub'.ok[id] = pub.ok[id] + 1)
       /\ Inserted(id) =>
            \E p \in Invocations :
              /\ inv[p].pc = "post"
              /\ inv[p].mentions[inv[p].idx] = id
              /\ inv'[p].processedCount = inv[p].processedCount + 1
       /\ \A p \in Invocations :
            FailedOn(p, id) =>
              /\ id \notin DOMAIN processedTweets'
              /\ inv'[p].processedCount = inv[p].processedCount]_vars

\* One batch in which one mention failed and another was published: only the
\* published one is in the store.
C3_Witness ==
  \E p \in Invocations :
    /\ inv[p].pc = "done"
    /\ Len(inv[p].mentions) = 2
    /\ inv[p].processedCount = 1
    /\ \E a, b \in Ids :
         /\ a # b
         /\ inv[p].errors = <<[kind |-> "mention", id |-> a]>>
         /\ a \notin DOMAIN processedTweets
         /\ b \in DOMAIN processedTweets
         /\ pub.ok[b] = 1

\* C4: a mention id delivered by the webhook is published at most once.
C4_WebhookDedup ==
  \A id \in Ids : whCalls.ok[id] <= 1

\* C5: once a publish for an id has raised although the reply was created,
\* no further reply is created for that id.
C5_NoRepeatAfterAmbiguous ==
  \A id \in Ids : replies[id] > pub.ok[id] => replies[id] <= 1

\* C6: a step of generation or publish never ends the batch; when it fails
\* the loop moves on to the next mention.  The error response is only sent
\* before the loop, and the batch result only after the last mention or
\* after the budget check stopped the loop.
C6_FailureIsolation ==
  [][\A p \in Invocations :
       /\ (inv[p].pc \in {"gen", "post"} /\ Stepped(p))
          => /\ inv'[p].response = NoResponse
             /\ \/ /\ inv[p].pc = "gen"
                   /\ inv'[p] = [inv[p] EXCEPT !.pc = "post",
                                               !.attempts = inv'[p].attempts]
                \/ /\ inv'[p].pc = "loop"
                   /\ inv'[p].idx = inv[p].idx + 1
                   /\ inv'[p].mentions = inv[p].mentions
       /\ (inv'[p].pc = "done" /\ inv'[p].response.status = "error")
          => (inv'[p].mentions = <<>> /\ inv'[p].errors = <<>>)
       /\ (inv'[p].pc = "done" /\ inv'[p].response.code = 200)
          => \/ inv'[p].idx = Len(inv'[p].mentions) + 1
             \/ /\ HasEntry(inv'[p].errors, "timeout")
                /\ now' - inv'[p].startTime > maxExecutionTime]_vars

\* The first mention of a batch failed, the second one was published and the
\* batch result was returned.
C6_Witness ==
  \E p \in Invocations :
    /\ inv[p].pc = "done"
    /\ inv[p].response.code = 200
    /\ Len(inv[p].mentions) = 2
    /\ inv[p].mentions[1] # inv[p].mentions[2]
    /\ inv[p].errors = <<[kind |-> "mention", id |-> inv[p].mentions[1]]>>
    /\ inv[p].processedCount = 1
    /\ pub.ok[inv[p].mentions[2]] = 1

\* C7: in the result of a batch that was not stopped by the budget, the status
\* is 'success' exactly when no mention failed, and 'partial_success' when a
\* mention failed and another was replied to.
C7_StatusReflectsFailures ==
  \A p \in Invocations :
    (inv[p].pc = "done" /\ inv[p].response.code = 200
       /\ ~HasEntry(inv[p].errors, "timeout"))
    => /\ inv[p].response.status = "success" <=> ~HasEntry(inv[p].errors, "mention")
       /\ (HasEntry(inv[p].errors, "mention") /\ inv[p].processedCount >= 1)
          => inv[p].response.status = "partial_success"

\* C8: a loop iteration that begins more than 25000 ms after the start of the
\* batch ends the batch without any call for the mention, and a finished
\* batch does nothing more; a mention already started is generated and
\* published whatever the elapsed time.
C8_BudgetStop ==
  [][\A p \in Invocations, id \in Ids :
       /\ (AtMention(p, id) /\ Elapsed(p) > maxExecutionTime /\ Stepped(p))
          => /\ inv'[p].pc = "done"
             /\ inv'[p].idx = inv[p].idx
             /\ inv'[p].processedCount = inv[p].processedCount
             /\ calls' = calls /\ pub' = pub /\ replies' = replies
             /\ DOMAIN processedTweets' \subseteq DOMAIN processedTweets
       /\ (inv[p].pc = "done" /\ ~Stepped(p))
          => (calls' = calls /\ pub' = pub /\ replies' = replies)
       /\ (inv[p].pc = "done" /\ Stepped(p)) => used'.batches = used.batches + 1
       /\ (inv[p].pc = "gen" /\ inv[p].mentions[inv[p].idx] = id /\ Stepped(p))
          => calls'.gen[id] > calls.gen[id]
       /\ (inv[p].pc = "post" /\ inv[p].mentions[inv[p].idx] = id /\ Stepped(p))
          => calls'.post[id] > calls.post[id]]_vars

\* The first mention was published after the budget had run out and the
\* second one was never started.
C8_Witness ==
  \E p \in Invocations :
    /\ inv[p].pc = "done"
    /\ Len(inv[p].mentions) = 2
    /\ inv[p].idx = 2
    /\ inv[p].processedCount = 1
    /\ pub.firstOkAt[inv[p].mentions[1]] - inv[p].startTime > maxExecutionTime
    /\ inv[p].mentions[2] # inv[p].mentions[1]
    /\ calls.check[inv[p].mentions[2]] = 0
    /\ inv[p].errors = <<TimeoutNote>>

\* C9: the result of a batch stopped by the budget is not 'success'.
C9_BudgetStopIsPartial ==
  \A p \in Invocations :
    (inv[p].pc = "done" /\ inv[p].response.code = 200
       /\ HasEntry(inv[p].errors, "timeout"))
    => inv[p].response.status # "success"

\* The script fails with a rate-limit signal exactly k times, then succeeds.
FailsThenSucceeds(script, k) ==
  /\ k < Len(script)
  /\ \A i \in 1..k : script[i].res = "rate"
  /\ script[k + 1].res = "ok"

\* C10: an operation that fails with a rate-limit signal exactly k times,
\* k < maxRetries, and then succeeds is invoked k + 1 times, its value is
\* returned, and attempt i + 1 starts no sooner than 2^i seconds after the
\* i-th failure.
C10_RetryThenSuccess ==
  retryOut # NotRun =>
    \A k \in 0..(retryIn.maxRetries - 1) :
      FailsThenSucceeds(retryIn.script, k)
      => /\ retryOut.done = "ok"
         /\ retryOut.calls = k + 1
         /\ retryOut.val = retryIn.script[k + 1].val
         /\ Len(retryOut.starts) = k + 1
         /\ \A i \in 1..k :
              retryOut.starts[i + 1] >= retryOut.fails[i] + (2 ^ i) * 1000

\* Two rate-limit failures, then success, under the default bound.
C10_Witness ==
  /\ retryOut # NotRun
  /\ retryIn.maxRetries = DefaultMaxRetries
  /\ FailsThenSucceeds(retryIn.script, 2)
  /\ retryOut.calls = 3
  /\ retryOut.sleeps = <<2000, 4000>>

\* The script fails with a rate-limit signal k times, then with a failure
\* that is no HTTP 429 and carries no code 429.
FailsThenOther(script, k) ==
  /\ k < Len(script)
  /\ \A i \in 1..k : script[i].res = "rate"
  /\ script[k + 1].res = "other"

\* C11: a failure that is no HTTP 429 and carries no code 429 ends the call
\* at once: the operation was invoked once for that attempt, no sleep
\* follows, no further attempt is made and the error raised is that error.
C11_OtherFailurePropagates ==
  retryOut # NotRun =>
    \A k \in 0..(retryIn.maxRetries - 1) :
      FailsThenOther(retryIn.script, k)
      => /\ retryOut.done = "throw"
         /\ retryOut.calls = k + 1
         /\ Len(retryOut.sleeps) = k
         /\ retryOut.error = [kind |-> "original", api |-> retryIn.apiName,
                              val |-> retryIn.script[k + 1].val]
         /\ retryOut.t = retryOut.fails[k + 1]

\* The script fails with a rate-limit signal on every attempt.
AlwaysRateLimited(script, n) == \A i \in 1..n : script[i].res = "rate"

\* C12: an operation that fails with a rate-limit signal on every attempt is
\* invoked maxRetries times, no sleep follows the last failure, and the call
\* raises the exhausted error that names the label of the operation.
C12_Exhausted ==
  (retryOut # NotRun /\ AlwaysRateLimited(retryIn.script, retryIn.maxRetries))
  => /\ retryOut.done = "throw"
     /\ retryOut.calls = retryIn.maxRetries
     /\ Len(retryOut.sleeps) = retryIn.maxRetries - 1
     /\ retryOut.t = retryOut.fails[retryIn.maxRetries]
     /\ retryOut.error = [kind |-> "exhausted", api |-> retryIn.apiName, val |-> "none"]
     /\ retryOut.val = "none"

\* Three rate-limit failures under the default bound.
C12_Witness ==
  /\ retryOut # NotRun
  /\ retryIn.maxRetries = DefaultMaxRetries
  /\ AlwaysRateLimited(retryIn.script, DefaultMaxRetries)
  /\ retryOut.calls = 3
  /\ retryOut.sleeps = <<2000, 4000>>
  /\ retryOut.error.kind = "exhausted"

\* C13: a call of isTweetProcessed(id) at time t, for a record last inserted
\* at time T, answers true when t - T <= 24h and false when t - T > 24h; after
\* a false answer the record is no longer in the map, that call having swept it.
C13_EvictionBoundary ==
  \A id \in Ids :
    (storeLog.op = "isTweetProcessed" /\ storeLog.id = id
       /\ storeLog.insertedAt[id] >= 0)
    => LET age == now - storeLog.insertedAt[id]
       IN /\ age <= MAX_AGE => storeLog.result = TRUE /\ id \in DOMAIN processedTweets
          /\ age > MAX_AGE => storeLog.result = FALSE /\ id \notin DOMAIN processedTweets

\* A record checked at T + 24h01m is absent, and that call removed it.
C13_Witness ==
  /\ storeLog.op = "isTweetProcessed"
  /\ storeLog.id = "T1"
  /\ storeLog.insertedAt["T1"] >= 0
  /\ now - storeLog.insertedAt["T1"] = MAX_AGE + 60000
  /\ storeLog.result = FALSE
  /\ "T1" \in storeLog.swept

\* A record checked at exactly T + 24h is still present.
C13_AtBoundary ==
  /\ storeLog.op = "isTweetProcessed"
  /\ storeLog.id = "T1"
  /\ storeLog.insertedAt["T1"] >= 0
  /\ now - storeLog.insertedAt["T1"] = MAX_AGE
  /\ storeLog.result = TRUE

\* C14: whatever the generation service returns and whoever the actor is, a
\* reply returned by the poll path's generateGroqResponse is non-empty and at
\* most 280 code units long.
C14_PollReplyBounded ==
  (textOut # NotRun /\ textOut.path = "poll" /\ textOut.done = "return")
  => /\ textOut.reply # << >>
     /\ Len(textOut.reply) <= ReplyLimit

\* A text longer than the limit has been cut to exactly the limit.
C14_Witness ==
  /\ textOut # NotRun
  /\ textOut.path = "poll"
  /\ textOut.done = "return"
  /\ textIn.result.kind = "content"
  /\ Len(textIn.result.content) > ReplyLimit
  /\ Len(textOut.reply) = ReplyLimit

\* The fallback text stands in for missing or blank content.
C14_Fallback ==
  /\ textOut # NotRun
  /\ textOut.path = "poll"
  /\ textOut.done = "return"
  /\ textIn.result.kind = "content"
  /\ textIn.result.content = <<" ", " ">>
  /\ textOut.reply = Handle(textIn.username) \o <<" ">> \o Apology

\* C15: whatever the generation service returns and whoever the actor is, the
\* reply returned by the poll path's generateGroqResponse, after the prepend
\* step and the truncation, contains '@' + actor as a substring.
C15_PollReplyHasHandle ==
  (textOut # NotRun /\ textOut.path = "poll" /\ textOut.done = "return")
  => includes(textOut.reply, Handle(textIn.username))

\* C16: the text the webhook handler hands to postTwitterReply is at most 280
\* code units long and contains '@' + actor as a substring.
C16_WebhookReplyGuarantees ==
  (textOut # NotRun /\ textOut.path = "webhook" /\ textOut.done = "return")
  => /\ Len(textOut.reply) <= ReplyLimit
     /\ includes(textOut.reply, Handle(textIn.username))

\* Both datasets are present, or both are null.
AllOrNothing(a) == (a.walletPortfolio = "null") <=> (a.walletStrategies = "null")

BothNull(a) == a.walletPortfolio = "null" /\ a.walletStrategies = "null"

\* C17: when the enrichment of a mention ends, whether a fetch failed or not,
\* the handler goes on to the generation of that mention; after a failed fetch
\* both datasets are null; and every call of generateGroqResponse, on the poll
\* path and on the webhook path, is given both datasets or none.
C17_EnrichmentAllOrNothing ==
  [][/\ \A p \in Invocations :
          /\ (inv[p].pc = "wallet" /\ inv'[p] # inv[p])
             => /\ inv'[p].pc = "gen"
                /\ inv'[p].idx = inv[p].idx
                /\ AllOrNothing(inv'[p])
                /\ Len(inv'[p].errors) > Len(inv[p].errors) => BothNull(inv'[p])
          /\ (inv[p].pc = "gen" /\ inv'[p] # inv[p])
             => LET id == inv[p].mentions[inv[p].idx]
                IN /\ calls'.gen[id] > calls.gen[id]
                   /\ calls'.genWith[id] = GenArgs(inv[p])
                   /\ AllOrNothing(calls'.genWith[id])
     /\ (wh.pc = "wallet" /\ wh' # wh)
        => /\ wh'.pc = "gen"
           /\ wh'.idx = wh.idx
           /\ AllOrNothing(wh')
           /\ used'.faults > used.faults => BothNull(wh')
     /\ (wh.pc = "gen" /\ wh' # wh)
        => LET id == wh.events[wh.idx].id
           IN /\ whCalls'.gen[id] > whCalls.gen[id]
              /\ whCalls'.genWith[id] = GenArgs(wh)
              /\ AllOrNothing(whCalls'.genWith[id])
    ]_vars

\* The generator has been called without datasets for a mention with a wallet
\* address, after a fetch of its enrichment failed.
C17_Witness ==
  /\ calls.gen["T2"] > 0
  /\ BothNull(calls.genWith["T2"])
  /\ \E i \in 1..Len(inv[SerialSlot].errors) :
        inv[SerialSlot].errors[i] = [kind |-> "wallet", id |-> "T2"]

\* The same on the webhook path.
C17_WebhookWitness ==
  /\ whCalls.gen["T2"] > 0
  /\ BothNull(whCalls.genWith["T2"])
  /\ used.faults > 0

\* The generator has been called with both datasets.
C17_Enriched ==
  /\ calls.gen["T2"] > 0
  /\ ~BothNull(calls.genWith["T2"])

WebhookHandling == wh.pc \in {"loop", "wallet", "gen", "post"}

\* C18: every POST delivery to the webhook handler is answered, the answer has
\* status 200 whatever the body holds and whichever call fails while the
\* events are handled, and one response is sent per delivery, not more.
C18_WebhookAlways200 ==
  /\ [](/\ WebhookHandling => wh.sent = 0
        /\ wh.pc = "done" => wh.sent = 1 /\ wh.response.code = 200)
  /\ (WebhookHandling ~> wh.pc = "done")

\* A delivery whose publish failed has been answered.
C18_Witness ==
  /\ wh.pc = "done"
  /\ wh.sent = 1
  /\ wh.response.code = 200
  /\ \E id \in Ids : whCalls.post[id] > whCalls.ok[id]

\* A delivery whose handling raised outside the per-event catch has been answered.
C18_ErrorAnswered ==
  /\ wh.pc = "done"
  /\ wh.response = [code |-> 200, status |-> "error", stats |-> NoStats]

\* C19: a PUT request to the teckaibot endpoint with TWITTER_BEARER_TOKEN,
\* BOT_USERNAME and GROQ_API_KEY set runs the batch and is answered with HTTP
\* 200 and the result of the batch.
C19_ManualTriggerRunsBatch ==
  \A p \in Invocations :
    (inv[p].via = "manual" /\ requiredEnvVars \subseteq env)
    => /\ inv[p].pc # "idle"
       /\ inv[p].pc = "done"
          => /\ inv[p].response.code = 200
             /\ inv[p].response.status \in {"success", "partial_success"}

\* C20: when a mandatory credential or identity is missing, no dedup check, no
\* generation call and no publish call is made for any mention, no mention
\* failure is recorded, and a request that is answered is answered with an error.
C20_MissingCredentialStopsEarly ==
  env # AllEnv
  => /\ \A id \in Ids :
          calls.check[id] = 0 /\ calls.gen[id] = 0 /\ calls.post[id] = 0
     /\ \A p \in Invocations :
          /\ \A i \in 1..Len(inv[p].errors) : inv[p].errors[i].kind # "mention"
          /\ (inv[p].pc = "done" /\ inv[p].response.code # 405)
             => inv[p].response.status = "error"

\* A string that is 0x followed by exactly 40 hexadecimal characters.
IsAddress(a) ==
  /\ Len(a) = 42
  /\ a[1] = "0" /\ a[2] = "x"
  /\ \A k \in 3..42 : a[k] \in HexChars

\* The part of text of length n that starts at offset i.
Slice(text, i, n) == SubSeq(text, i + 1, i + n)

\* C21: extractWalletAddress returns null, or a string that is 0x followed by
\* exactly 40 hexadecimal characters and occurs in the text at an offset before
\* which no such string starts; it returns null only for a text without any.
C21_FirstAddress ==
  textOut # NotRun
  => LET text == textIn.text
         offsets == {i \in 0..(Len(text) - 42) : IsAddress(Slice(text, i, 42))}
     IN IF textOut.found
        THEN /\ IsAddress(textOut.address)
             /\ \E i \in offsets :
                  /\ Slice(text, i, 42) = textOut.address
                  /\ \A j \in offsets : i <= j
        ELSE offsets = {}

\* A text with two different addresses: the one that comes first is returned.
C21_Witness ==
  /\ textOut # NotRun
  /\ textOut.found
  /\ textIn.text = <<"h", "i", " ">> \o <<"0", "x">> \o Hex(40, "F")
                     \o <<"0", "x">> \o Hex(40, "a")
  /\ textOut.address = <<"0", "x">> \o Hex(40, "F")

\* The ids in the store whose record has an age for which test(age) holds.
Aged(test(_)) ==
  {id \in DOMAIN processedTweets : test(now - processedTweets[id].timestamp)}

UnderAnHour(age) == age < 60 * 60 * 1000
UnderADay(age) == age < MAX_AGE
ExactlyADay(age) == age = MAX_AGE
OverADay(age) == age > MAX_AGE

C22_Swept ==
  /\ storeLog.op = "getProcessingStats"
  /\ storeLog.swept # {}
  /\ storeLog.stats.totalProcessed = 1

\* Invocation p has passed the dedup check of mention id and has not yet
\* finished with it.
PastCheck(p, id) ==
  /\ inv[p].pc \in {"wallet", "gen", "post"}
  /\ inv[p].mentions[inv[p].idx] = id

\* C23: two invocations of one process that overlap and list the same
\* unprocessed id never both pass the dedup check for it, and the id is
\* published once within its retention window.
C23_NoCheckThenActRace ==
  \A id \in Ids :
    /\ \A p, q \in Invocations : (PastCheck(p, id) /\ PastCheck(q, id)) => p = q
    /\ (pub.firstOkAt[id] >= 0 /\ now - pub.firstOkAt[id] <= MAX_AGE) => pub.ok[id] <= 1

\* C24: after every operation of the store, isTweetProcessed,
\* getProcessingStats, getProcessedTweets or addProcessedTweet, the store holds
\* no record older than 24 hours.
C24_SweepOnEveryOperation ==
  storeLog.op \in {"isTweetProcessed", "getProcessingStats", "getProcessedTweets",
                   "addProcessedTweet"}
  => Aged(OverADay) = {}

\* The same for the operations that read.
C24_SweepOnRead ==
  storeLog.op \in {"isTweetProcessed", "getProcessingStats", "getProcessedTweets"}
  => Aged(OverADay) = {}

\* C25: over any sequence of poll batches, addProcessedTweet is called only
\* for an id that is absent from the store at that moment, and the timestamp
\* of a record that stays in the store never changes.
C25_NeverUpdated ==
  [][\A id \in Ids :
       /\ calls'.add[id] > calls.add[id] => id \notin DOMAIN processedTweets
       /\ (id \in DOMAIN processedTweets /\ id \in DOMAIN processedTweets')
          => processedTweets'[id] = processedTweets[id]
    ]_vars

\* An id was inserted, evicted after its retention window, and inserted anew.
C25_Witness ==
  /\ calls.add["T1"] = 2
  /\ "T1" \in DOMAIN processedTweets
  /\ processedTweets["T1"].timestamp > MAX_AGE

\* C26: a step of the batch appends an entry to the errors list exactly when
\* it is a generation or a publish that failed, and then one entry that names
\* the mention; the only other entry is the note of the budget stop.  A step
\* of the enrichment, failed or not, appends nothing.
C26_ErrorAccounting ==
  [][\A p \in Invocations :
       (Stepped(p) /\ inv[p].pc \in {"loop", "wallet", "gen", "post"})
       => LET id == inv[p].mentions[inv[p].idx]
              failed == /\ inv[p].pc \in {"gen", "post"}
                        /\ inv'[p].processedCount = inv[p].processedCount
                        /\ inv'[p].pc = "loop"
          IN IF failed
             THEN inv'[p].errors = Append(inv[p].errors, [kind |-> "mention", id |-> id])
             ELSE \/ inv'[p].errors = inv[p].errors
                  \/ /\ inv[p].pc = "loop"
                     /\ inv'[p].errors = Append(inv[p].errors, TimeoutNote)
    ]_vars

\* The same without the clause on the enrichment: its steps are left out.
C26_MentionFailuresCounted ==
  [][\A p \in Invocations :
       (Stepped(p) /\ inv[p].pc \in {"loop", "gen", "post"})
       => LET id == inv[p].mentions[inv[p].idx]
              failed == /\ inv[p].pc \in {"gen", "post"}
                        /\ inv'[p].processedCount = inv[p].processedCount
                        /\ inv'[p].pc = "loop"
          IN IF failed
             THEN inv'[p].errors = Append(inv[p].errors, [kind |-> "mention", id |-> id])
             ELSE \/ inv'[p].errors = inv[p].errors
                  \/ /\ inv[p].pc = "loop"
                     /\ inv'[p].errors = Append(inv[p].errors, TimeoutNote)
    ]_vars

\* The mentions of p from the one the loop is at to the last one.
NotStarted(p) == {inv[p].mentions[j] : j \in inv[p].idx..Len(inv[p].mentions)}

\* C27: the step in which the budget stops a batch makes no call for the
\* mentions not started, adds none of them to the store and appends only the
\* note of the stop to the errors; and an id that is not in the store, left
\* over by a stopped batch or not, is taken up when a loop reaches it within
\* the budget.
C27_UntriedStayEligible ==
  [][\A p \in Invocations, id \in Ids :
       /\ (AtMention(p, id) /\ Elapsed(p) > maxExecutionTime /\ Stepped(p))
          => /\ inv'[p].pc = "done"
             /\ inv'[p].errors = Append(inv[p].errors, TimeoutNote)
             /\ calls' = calls /\ pub' = pub /\ replies' = replies
             /\ \A left \in NotStarted(p) :
                  left \in DOMAIN processedTweets' => InStore(left)
       /\ (AtMention(p, id) /\ Elapsed(p) <= maxExecutionTime /\ Stepped(p)
             /\ ~InStore(id))
          => /\ inv'[p].pc \in {"wallet", "gen"}
             /\ inv'[p].idx = inv[p].idx
             /\ inv'[p].errors = inv[p].errors
             /\ calls'.check[id] = calls.check[id] + 1
    ]_vars

\* A batch was stopped before it started T2; the next batch listed T2 again
\* and published the reply.
C27_Witness ==
  LET first == inv["inv1"]
      second == inv["inv2"]
  IN /\ first.pc = "done"
     /\ first.idx <= Len(first.mentions)
     /\ first.mentions[first.idx] = "T2"
     /\ first.errors = <<TimeoutNote>>
     /\ second.pc = "done"
     /\ second.startTime > first.startTime
     /\ second.mentions = <<"T2">>
     /\ second.processedCount = 1
     /\ second.errors = << >>
     /\ calls.check["T2"] = 1
     /\ pub.ok["T2"] = 1


C28_SweepFault ==
  /\ storeLog.op = "isTweetProcessed"
  /\ storeLog.fault = "sweep"
  /\ storeLog.result = TRUE
  /\ expired(now - processedTweets[storeLog.id].timestamp)

TvAt(id) == tv.idx <= Len(tv.mentions) /\ tv.mentions[tv.idx] = id

TvFailed(id) ==
  /\ tv'.errors = Append(tv.errors, [kind |-> "mention", id |-> id])
  /\ tv'.pc = "loop"
  /\ tv'.idx = tv.idx + 1
  /\ processedTweets' = processedTweets

\* C29: in the timeout variant, a generation call that takes more than 8 s
\* ends 8 s after it began and a publish call that takes more than 5 s ends
\* 5 s after it began; in both cases the mention is recorded as failed and the
\* loop goes on to the next mention; a timer that runs aborts the controller
\* of its own call only.
C29_PerCallTimeouts ==
  [][\A id \in Ids :
       /\ (tv.pc = "gen" /\ TvAt(id) /\ tv'.last.api = "gen"
              /\ tv'.last.took > GenerateTimeout /\ tv' # tv)
          => now' = now + GenerateTimeout /\ TvFailed(id)
       /\ (tv.pc = "post" /\ TvAt(id) /\ tv'.last.api = "post"
              /\ tv'.last.took > PublishTimeout /\ tv' # tv)
          => now' = now + PublishTimeout /\ TvFailed(id)
       /\ \A c \in tv'.aborted \ tv.aborted :
            \E x \in tv.armed : x.ctl = c.ctl /\ x.id = c.id /\ x.due <= now'
    ]_vars

\* What holds: the wallet fetches, which are handed the signal, end within
\* 8 s, and a timer that runs aborts the controller of its own call only.
C29_WalletBounded ==
  [][/\ (tv.pc = "wallet" /\ tv' # tv) => now' <= now + WalletTimeout
     /\ \A c \in tv'.aborted \ tv.aborted :
          \E x \in tv.armed : x.ctl = c.ctl /\ x.id = c.id /\ x.due <= now'
    ]_vars

\* A generation call outlived its timer, returned, and its reply was published.
C29_LateReply ==
  /\ tv.pc = "loop"
  /\ tv.last.api = "post" /\ tv.last.ok
  /\ [ctl |-> "ai", id |-> tv.last.id] \in tv.aborted
  /\ tv.processedCount = 1
  /\ tv.errors = << >>

\* The webhook handler is at an event that its filter lets through.
Eligible(tweet) == ~tweet.retweet /\ tweet.user # BotName /\ tweet.mentionsBot

\* C30: on the webhook path every wallet, generation or publish call is made
\* for an event that is not a retweet, was not written by the bot and mentions
\* the bot; an event that fails one of the three is passed over without a call.
C30_WebhookFilter ==
  [][/\ \A id \in Ids :
          (whCalls'.gen[id] > whCalls.gen[id] \/ whCalls'.post[id] > whCalls.post[id])
          => /\ wh.idx <= Len(wh.events)
             /\ wh.events[wh.idx].id = id
             /\ Eligible(wh.events[wh.idx])
     /\ wh'.pc \in {"wallet", "gen", "post"}
          => wh'.idx <= Len(wh'.events) /\ Eligible(wh'.events[wh'.idx])
     /\ (wh.pc = "loop" /\ wh.idx <= Len(wh.events) /\ wh' # wh
           /\ ~Eligible(wh.events[wh.idx]))
          => /\ wh'.pc = "loop"
             /\ wh'.idx = wh.idx + 1
             /\ whCalls' = whCalls
             /\ replies' = replies
    ]_vars

\* A delivery held a tweet of the bot that mentions the bot, then a mention
\* by another account: only the second was answered.
C30_Witness ==
  /\ wh.pc = "done"
  /\ wh.events = <<Event("T1", FALSE, BotName, TRUE), Event("T2", FALSE, "alice", TRUE)>>
  /\ whCalls.gen["T1"] = 0 /\ whCalls.post["T1"] = 0 /\ replies["T1"] = 0
  /\ whCalls.gen["T2"] = 1 /\ whCalls.ok["T2"] = 1

Handling(p) == inv[p].pc \in {"search", "loop", "wallet", "gen", "post"}

\* A step of a request under way: not the arrival of the next request.
Continues(p) == Handling(p) /\ Stepped(p)

\* C31: every invocation of the poll handler ends, and sends one response when
\* it ends and none before; the loop moves forward by one mention at a time and
\* never back, every listed mention is checked against the store at most once,
\* and no retryApiCall makes more than maxRetries attempts.
C31_TerminatesWithOneResponse ==
  /\ \A p \in Invocations : Handling(p) ~> inv[p].pc = "done"
  /\ [](\A p \in Invocations :
          /\ Handling(p) => inv[p].sent = 0
          /\ inv[p].pc = "done" => inv[p].sent = 1 /\ inv[p].response.code # 0
          /\ inv[p].idx <= Len(inv[p].mentions) + 1
          /\ inv[p].attempts <= DefaultMaxRetries)
  /\ [][\A p \in Invocations :
          Continues(p)
          => /\ inv'[p].idx \in {inv[p].idx, inv[p].idx + 1}
             /\ (inv'[p].pc = "loop" /\ inv[p].pc \in {"loop", "gen", "post"})
                => inv'[p].idx = inv[p].idx + 1
             /\ inv[p].pc # "search" => inv'[p].mentions = inv[p].mentions
             /\ \A id \in Ids :
                  /\ calls'.check[id] - calls.check[id]
                       <= IF AtMention(p, id) THEN 1 ELSE 0
                  /\ calls'.gen[id] - calls.gen[id] <= DefaultMaxRetries
                  /\ calls'.post[id] - calls.post[id] <= DefaultMaxRetries
    ]_vars

\* A batch of two mentions has ended with one response, after a call that
\* used all its attempts.
C31_Witness ==
  /\ inv[SerialSlot].pc = "done"
  /\ inv[SerialSlot].sent = 1
  /\ inv[SerialSlot].response.code = 200
  /\ Len(inv[SerialSlot].mentions) = 2
  /\ inv[SerialSlot].idx = 3
  /\ inv[SerialSlot].attempts = DefaultMaxRetries

\* A request has been answered by the catch around the handler.
C31_ErrorAnswered ==
  /\ inv[SerialSlot].pc = "done"
  /\ inv[SerialSlot].sent = 1
  /\ inv[SerialSlot].response.code \in {429, 500}
  /\ inv[SerialSlot].via = "poll"


====
